---- MODULE Spec2Model ----
(***************************************************************************)
(* A model of the rendering demo in src/NOO版本/no_test1.cpp (curved world) *)
(* and src/NOO版本/test3.cpp (flat world): the free-fly Camera, the Engine's *)
(* cursor callback and input step, the procedural mesh generators, and the  *)
(* Object that owns one vertex array and one vertex buffer.                 *)
(*                                                                         *)
(* Number representations.                                                 *)
(*  - Angles (yaw, pitch) are integers counting tenths of a degree: the     *)
(*    mouse sensitivity is 0.1 degree per pixel and cursor offsets are      *)
(*    whole pixels here.                                                    *)
(*  - Direction and position vectors are fixed point with FixOne = 1.0;     *)
(*    cos/sin come from a one-degree table with linear interpolation, and   *)
(*    every product and quotient is rounded to the nearest unit.            *)
(*  - Mesh coordinates are IEEE-754 binary32 values, held as integers in    *)
(*    units of 2^-27 (F32One = 1.0f); every float operation of the          *)
(*    generators rounds its exact result to 24 significant bits, ties to    *)
(*    even, as the hardware does.                                           *)
(***************************************************************************)
EXTENDS Integers, Sequences, FiniteSets, TLC

VARIABLES
    \* Camera
    cameraPos, cameraFront, yaw, pitch,
    \* number of calls made on the Camera's public interface (SpecCamera)
    calls,
    \* Engine
    firstMouse, lastX, lastY, lastFrame, deltaTime, userPointer, shouldClose,
    \* the graphics API: its live objects, its bindings and the calls it received
    gl,
    \* the renderable alive, if any, and the arguments it was constructed with
    object, meshArgs,
    \* main: its position (pc, with loopIndex inside its loops), which of the two programs it
    \* is (world), the platform library, the window and the API loader, its
    \* local renderables, the frame-loop iterations started, the steps taken in
    \* the current iteration, its local view, what it wrote to standard output,
    \* how the process ended, and the API entry points it called while no
    \* loaded API with a current context existed
    pc, loopIndex, world, glfw, window, glad, renderables, frames, frameLog, view,
    stdout, exit, strayCalls,
    \* the cursor callback's history: the yaw as the binary32 value the program
    \* holds, the first x position reported, and the events delivered
    yawF32, firstX, events

cameraVars == <<cameraPos, cameraFront, yaw, pitch>>
engineVars == <<firstMouse, lastX, lastY, lastFrame, deltaTime, userPointer, shouldClose>>
glVars     == <<gl>>
meshVars   == <<object, meshArgs>>
mainVars   == <<pc, loopIndex, world, glfw, window, glad, renderables, frames, frameLog, view,
                stdout, exit, strayCalls>>
cursorVars == <<yawF32, firstX, events>>
vars       == <<cameraVars, calls, engineVars, glVars, meshVars, mainVars, cursorVars>>

----------------------------------------------------------------------------
(* Bounds of the model *)

\* calls made on a Camera in SpecCamera
MaxCalls == 3
\* the extreme cursor offset is 100 * MaxScale pixels
MaxScale == 20
\* the longest frame time, in tenths of a second
MaxDeltaTime == 1
\* the latest clock reading of SpecEngine, in tenths of a second
MaxTime == 1
\* the finest subdivision of a cube face and of the ground grid
MaxRes == 5
\* the largest half-extent of the ground
MaxSize == 3
\* renderables constructed, one after the other, in SpecMesh
MaxObjects == 2

----------------------------------------------------------------------------
(* Arithmetic helpers *)

Abs(x) == IF x < 0 THEN -x ELSE x

Sign(x) == IF x < 0 THEN -1 ELSE 1

\* a / b rounded to the nearest integer, halves away from zero (b > 0)
RoundDiv(a, b) == Sign(a) * ((2 * Abs(a) + b) \div (2 * b))

RECURSIVE SqrtFloor(_, _, _)
SqrtFloor(n, lo, hi) ==
    IF lo >= hi THEN lo
    ELSE LET mid == (lo + hi + 1) \div 2
         IN  IF mid * mid <= n THEN SqrtFloor(n, mid, hi) ELSE SqrtFloor(n, lo, mid - 1)

\* the square root of n rounded to the nearest integer (n < 2^31)
ISqrt(n) ==
    LET f == SqrtFloor(n, 0, 46340)
    IN  IF n - f * f > f THEN f + 1 ELSE f

----------------------------------------------------------------------------
(* Fixed-point vectors: glm::vec3 *)

FixOne == 10 ^ 4

FixMul(a, b) == RoundDiv(a * b, FixOne)

Vec3(x, y, z) == <<x, y, z>>

VecAdd(a, b) == <<a[1] + b[1], a[2] + b[2], a[3] + b[3]>>

VecSub(a, b) == <<a[1] - b[1], a[2] - b[2], a[3] - b[3]>>

\* vec3 * float
VecScale(v, s) == <<FixMul(v[1], s), FixMul(v[2], s), FixMul(v[3], s)>>

\* glm::cross
Cross(a, b) == <<FixMul(a[2], b[3]) - FixMul(a[3], b[2]),
                 FixMul(a[3], b[1]) - FixMul(a[1], b[3]),
                 FixMul(a[1], b[2]) - FixMul(a[2], b[1])>>

\* glm::length
Length(v) == ISqrt(v[1] * v[1] + v[2] * v[2] + v[3] * v[3])

\* glm::normalize: v * inversesqrt(dot(v, v))
Normalize(v) ==
    LET n == Length(v)
    IN  <<RoundDiv(v[1] * FixOne, n), RoundDiv(v[2] * FixOne, n), RoundDiv(v[3] * FixOne, n)>>

----------------------------------------------------------------------------
(* Trigonometry of angles in tenths of a degree: cos(glm::radians(a)) *)

AngleUnitsPerDegree == 10

\* FixOne * sin(d degrees), d = 0 .. 90
SinTable ==
   << 0, 175, 349, 523, 698, 872, 1045, 1219, 1392, 1564,
      1736, 1908, 2079, 2250, 2419, 2588, 2756, 2924, 3090, 3256,
      3420, 3584, 3746, 3907, 4067, 4226, 4384, 4540, 4695, 4848,
      5000, 5150, 5299, 5446, 5592, 5736, 5878, 6018, 6157, 6293,
      6428, 6561, 6691, 6820, 6947, 7071, 7193, 7314, 7431, 7547,
      7660, 7771, 7880, 7986, 8090, 8192, 8290, 8387, 8480, 8572,
      8660, 8746, 8829, 8910, 8988, 9063, 9135, 9205, 9272, 9336,
      9397, 9455, 9511, 9563, 9613, 9659, 9703, 9744, 9781, 9816,
      9848, 9877, 9903, 9925, 9945, 9962, 9976, 9986, 9994, 9998,
      10000 >>

\* sin of m tenths of a degree, 0 <= m <= 900
SinQuadrant(m) ==
    LET d == m \div AngleUnitsPerDegree
        f == m % AngleUnitsPerDegree
    IN  IF f = 0 THEN SinTable[d + 1]
        ELSE SinTable[d + 1]
             + RoundDiv((SinTable[d + 2] - SinTable[d + 1]) * f, AngleUnitsPerDegree)

SinDeg(a) ==
    LET m == a % (360 * AngleUnitsPerDegree)
        q == 90 * AngleUnitsPerDegree
    IN  IF m <= q THEN SinQuadrant(m)
        ELSE IF m <= 2 * q THEN SinQuadrant(2 * q - m)
        ELSE IF m <= 3 * q THEN -SinQuadrant(m - 2 * q)
        ELSE -SinQuadrant(4 * q - m)

CosDeg(a) == SinDeg(a + 90 * AngleUnitsPerDegree)

----------------------------------------------------------------------------
(* Camera *)

Width == 1600
Height == 1200

cameraUp == Vec3(0, FixOne, 0)

\* speed = 2.5f
speed == (25 * FixOne) \div 10

\* pitch is kept within 89 degrees of the horizon
PitchLimit == 89 * AngleUnitsPerDegree

\* the spherical-to-Cartesian conversion of lines 199-201
Spherical(y, p) ==
    Vec3(FixMul(CosDeg(y), CosDeg(p)), SinDeg(p), FixMul(SinDeg(y), CosDeg(p)))

\* a variant of updateCameraVectors with the y and z components exchanged
updateCameraVectors_SwappedAxes(y, p) ==
    Normalize(Vec3(FixMul(CosDeg(y), CosDeg(p)), FixMul(SinDeg(y), CosDeg(p)), SinDeg(p)))

\* Camera::updateCameraVectors: the new value of cameraFront
updateCameraVectors(y, p) == Normalize(Spherical(y, p))

\* a variant of ScaleBySensitivity that leaves the sensitivity out
ScaleBySensitivity_Unscaled(offset) == offset * AngleUnitsPerDegree

\* xoffset *= sensitivity, sensitivity = 0.1f: pixels to tenths of a degree
ScaleBySensitivity(offset) == (offset * AngleUnitsPerDegree) \div 10

\* a variant of ConstrainPitch that clamps at the upper limit only
ConstrainPitch_UpperOnly(p) == IF p > PitchLimit THEN PitchLimit ELSE p

\* if (pitch > 89.0f) pitch = 89.0f; if (pitch < -89.0f) pitch = -89.0f;
ConstrainPitch(p) ==
    LET p1 == IF p > PitchLimit THEN PitchLimit ELSE p
    IN  IF p1 < -PitchLimit THEN -PitchLimit ELSE p1

\* Camera::Camera: the state of a freshly constructed camera
CameraInit ==
    /\ cameraPos = Vec3(0, 0, 4 * FixOne)
    /\ cameraFront = Vec3(0, -((3 * FixOne) \div 10), -FixOne)
    /\ yaw = -90 * AngleUnitsPerDegree
    /\ pitch = 0

\* Camera::ProcessMouseMovement(xoffset, yoffset, constrainPitch)
ProcessMouseMovement(xoffset, yoffset, constrainPitch) ==
    LET newYaw   == yaw + ScaleBySensitivity(xoffset)
        rawPitch == pitch + ScaleBySensitivity(yoffset)
        newPitch == IF constrainPitch THEN ConstrainPitch(rawPitch) ELSE rawPitch
    IN  /\ yaw' = newYaw
        /\ pitch' = newPitch
        /\ cameraFront' = updateCameraVectors(newYaw, newPitch)
        /\ UNCHANGED cameraPos

Keys == {"W", "S", "A", "D", "SPACE", "LEFT_SHIFT", "ESCAPE"}

\* normalize(cross(cameraFront, cameraUp)) of lines 232 and 234
Right(front) == Normalize(Cross(front, cameraUp))

\* the position after Camera::ProcessKeyboard with the keys `pressed` held down
KeyboardPosition(pos, front, pressed, dt) ==
    LET velocity == FixMul(speed, dt)
        p1 == IF "W" \in pressed THEN VecAdd(pos, VecScale(front, velocity)) ELSE pos
        p2 == IF "S" \in pressed THEN VecSub(p1, VecScale(front, velocity)) ELSE p1
        p3 == IF "A" \in pressed THEN VecSub(p2, VecScale(Right(front), velocity)) ELSE p2
        p4 == IF "D" \in pressed THEN VecAdd(p3, VecScale(Right(front), velocity)) ELSE p3
        p5 == IF "SPACE" \in pressed THEN VecAdd(p4, VecScale(cameraUp, velocity)) ELSE p4
        p6 == IF "LEFT_SHIFT" \in pressed THEN VecSub(p5, VecScale(cameraUp, velocity)) ELSE p5
    IN  p6

\* Camera::ProcessKeyboard(window, deltaTime)
ProcessKeyboard(pressed, dt) ==
    /\ cameraPos' = KeyboardPosition(cameraPos, cameraFront, pressed, dt)
    /\ UNCHANGED <<cameraFront, yaw, pitch>>

----------------------------------------------------------------------------
(* Inputs *)

\* cursor offsets handed to ProcessMouseMovement, in pixels
XOffsets == {-25, 0, 100, 100 * MaxScale}
YOffsets == {-100 * MaxScale, 0, 25, 100 * MaxScale}

\* key states seen by one ProcessKeyboard call
KeySets == {{}, {"W"}, {"S", "D"}, {"A", "SPACE"}, {"W", "LEFT_SHIFT"}}

\* frame times in seconds (fixed point): multiples of a tenth of a second
DeltaTimes == {(k * FixOne) \div 10 : k \in 0 .. MaxDeltaTime}

----------------------------------------------------------------------------
(* Engine: the statics of lines 352-354 and the state after Engine::init *)

EngineInit ==
    /\ firstMouse = TRUE
    /\ lastX = Width \div 2
    /\ lastY = Height \div 2
    /\ lastFrame = 0
    /\ deltaTime = 0
    /\ userPointer = "engine"
    /\ shouldClose = FALSE

\* a variant of mouse_callback that does not store the position it was given
mouse_callback_StalePosition(xpos, ypos) ==
    IF userPointer = "null"
    THEN UNCHANGED <<cameraVars, firstMouse, lastX, lastY>>
    ELSE LET baseX == IF firstMouse THEN xpos ELSE lastX
             baseY == IF firstMouse THEN ypos ELSE lastY
         IN  /\ firstMouse' = FALSE
             /\ lastX' = baseX
             /\ lastY' = baseY
             /\ ProcessMouseMovement(xpos - baseX, baseY - ypos, TRUE)

\* Engine::mouse_callback(window, xpos, ypos)
mouse_callback(xpos, ypos) ==
    IF userPointer = "null"
    THEN UNCHANGED <<cameraVars, firstMouse, lastX, lastY>>
    ELSE LET baseX   == IF firstMouse THEN xpos ELSE lastX
             baseY   == IF firstMouse THEN ypos ELSE lastY
             xoffset == xpos - baseX
             yoffset == baseY - ypos
         IN  /\ firstMouse' = FALSE
             /\ lastX' = xpos
             /\ lastY' = ypos
             /\ ProcessMouseMovement(xoffset, yoffset, TRUE)

\* Engine::processInput(window), with the keys held down and the clock reading
processInput(pressed, currentFrame) ==
    /\ shouldClose' = (shouldClose \/ "ESCAPE" \in pressed)
    /\ deltaTime' = currentFrame - lastFrame
    /\ lastFrame' = currentFrame
    /\ ProcessKeyboard(pressed, currentFrame - lastFrame)

----------------------------------------------------------------------------
(* The graphics API before any call, and no renderable *)

GLCallNames ==
    {"glGenVertexArrays", "glGenBuffers", "glDeleteVertexArrays", "glDeleteBuffers",
     "glCreateShader", "glDeleteShader", "glCreateProgram",
     "deleteOfUnusedVertexArray", "deleteOfUnusedBuffer"}

\* vertexArrays: name in use -> the buffer its attribute 0 reads (0: none)
\* buffers: name in use -> the floats stored in it
\* shaders, programs: names in use
\* arrayBuffer, vertexArray: the current bindings (0: none)
\* calls: how often each entry point was called, and how often a delete was
\*        handed a name that is not in use
\* lastDraw: the last glDrawArrays
\* program: the program in use (0: none)
\* uniforms: the uniform uploads made: the program whose location was looked up,
\*           the program in use that received the value, and the value
GLInit ==
    gl = [vertexArrays |-> [n \in {} |-> 0],
          buffers      |-> [n \in {} |-> <<>>],
          shaders      |-> {},
          programs     |-> {},
          arrayBuffer  |-> 0,
          vertexArray  |-> 0,
          calls        |-> [c \in GLCallNames |-> 0],
          lastDraw     |-> [vertexArray |-> 0, first |-> 0, count |-> 0],
          program      |-> 0,
          uniforms     |-> {}]

\* no renderable: the handles are the API's null name
NoObject == [VAO |-> 0, VBO |-> 0, vertexCount |-> 0, shaderProgram |-> 0]

NoArgs == [class |-> "none"]

MeshInit ==
    /\ object = NoObject
    /\ meshArgs = NoArgs

\* main not started: nothing initialised, no renderable, no frame
MainInit ==
    /\ pc = "init_glfw"
    /\ loopIndex = 0
    /\ glfw = "uninitialised"
    /\ window = "unset"
    /\ glad = FALSE
    /\ renderables = <<>>
    /\ frames = 0
    /\ frameLog = <<>>
    /\ view = [eye |-> Vec3(0, 0, 0), center |-> Vec3(0, 0, 0), up |-> Vec3(0, 0, 0)]
    /\ stdout = <<>>
    /\ exit = "running"
    /\ strayCalls = {}

\* no cursor event delivered: float yaw = -90.0f, in units of 2^-17 degree
CursorInit ==
    /\ yawF32 = -90 * 2 ^ 17
    /\ firstX = 0
    /\ events = 0

----------------------------------------------------------------------------
(* SpecCamera: a Camera driven through its public interface *)

InitCamera ==
    /\ CameraInit
    /\ calls = 0
    /\ EngineInit
    /\ GLInit
    /\ MeshInit
    /\ MainInit
    /\ world = "curved"
    /\ CursorInit

CameraMouse ==
    \E dx \in XOffsets, dy \in YOffsets :
        /\ calls < MaxCalls
        /\ ProcessMouseMovement(dx, dy, TRUE)
        /\ calls' = calls + 1
        /\ UNCHANGED <<engineVars, glVars, meshVars, mainVars, cursorVars>>

CameraKeyboard ==
    \E pressed \in KeySets, dt \in DeltaTimes :
        /\ calls < MaxCalls
        /\ ProcessKeyboard(pressed, dt)
        /\ calls' = calls + 1
        /\ UNCHANGED <<engineVars, glVars, meshVars, mainVars, cursorVars>>

NextCamera == CameraMouse \/ CameraKeyboard

SpecCamera == InitCamera /\ [][NextCamera]_vars

----------------------------------------------------------------------------
(* SpecEngine: the Engine's two input paths on a running window *)

\* cursor positions reported to the callback, in pixels
CursorXs == {Width \div 2, Width \div 2 + 100, 0}
CursorYs == {Height \div 2, Height \div 2 - 100 * MaxScale}

\* clock readings in seconds (fixed point): multiples of a tenth of a second
Times == {(k * FixOne) \div 10 : k \in 0 .. MaxTime}

InitEngine ==
    /\ CameraInit
    /\ calls = 0
    /\ EngineInit
    /\ GLInit
    /\ MeshInit
    /\ MainInit
    /\ world = "curved"
    /\ CursorInit

CursorEvent ==
    \E xpos \in CursorXs, ypos \in CursorYs :
        /\ mouse_callback(xpos, ypos)
        /\ UNCHANGED <<calls, lastFrame, deltaTime, userPointer, shouldClose, glVars, meshVars,
                       mainVars, cursorVars>>

InputStep ==
    \E pressed \in KeySets \cup {{"ESCAPE"}}, currentFrame \in Times :
        /\ ~shouldClose
        /\ currentFrame >= lastFrame
        /\ processInput(pressed, currentFrame)
        /\ UNCHANGED <<calls, firstMouse, lastX, lastY, userPointer, glVars, meshVars,
                       mainVars, cursorVars>>

NextEngine == CursorEvent \/ InputStep

SpecEngine == InitEngine /\ [][NextEngine]_vars

----------------------------------------------------------------------------
(* Claims about the Camera *)

\* v has length 1 within one fixed-point unit
IsUnit(v) == Abs(Length(v) - FixOne) <= 1

\* normalize((cos(yaw)cos(pitch), sin(pitch), sin(yaw)cos(pitch))), written out
SphericalFront(y, p) ==
    Normalize(<<FixMul(CosDeg(y), CosDeg(p)), SinDeg(p), FixMul(SinDeg(y), CosDeg(p))>>)

\* C1: after any sequence of mouse-movement calls, however large the offsets,
\* the camera pitch lies in [-89, 89] degrees.
C1_PitchWithinLimits == pitch >= -89 * AngleUnitsPerDegree /\ pitch <= 89 * AngleUnitsPerDegree

\* a call has pushed the pitch past 89 degrees and it was clamped there
C1_Witness == calls > 0 /\ pitch = 89 * AngleUnitsPerDegree

\* C2 (as claimed): in every reachable Camera state, the freshly constructed one
\* included, the forward vector has unit length and is the spherical-to-Cartesian
\* conversion of the current yaw and pitch.
C2_FrontUnitAndSpherical == IsUnit(cameraFront) /\ cameraFront = SphericalFront(yaw, pitch)

\* C3: immediately after every ProcessMouseMovement call the forward vector is
\* normalize((cos(yaw)cos(pitch), sin(pitch), sin(yaw)cos(pitch))) of the yaw and
\* pitch just stored, and has length 1.
C3_FrontAfterMouseMovement ==
    [][CameraMouse => (cameraFront' = SphericalFront(yaw', pitch') /\ IsUnit(cameraFront'))]_vars

\* a mouse movement has turned the camera away from its initial yaw and pitch
C3_Witness ==
    /\ calls > 0
    /\ yaw # -90 * AngleUnitsPerDegree
    /\ pitch # 0
    /\ cameraFront = SphericalFront(yaw, pitch)

\* C4 (as claimed): the first cursor event after start-up leaves yaw, pitch and the
\* forward vector as they were, whatever position it reports.
C4_FirstEventKeepsLookDirection ==
    [][(firstMouse /\ ~firstMouse') =>
           (yaw' = yaw /\ pitch' = pitch /\ cameraFront' = cameraFront)]_vars

\* C5: ProcessMouseMovement(dx, dy) adds 0.1 * dx degrees to yaw with no clamp and
\* no wrap, and leaves pitch alone when dy = 0; on a fresh camera
\* ProcessMouseMovement(100, 0) takes yaw from -90 to -80 with pitch still 0.
C5_YawAccumulatesUnclamped ==
    [][\A dx \in XOffsets, dy \in YOffsets :
          (ProcessMouseMovement(dx, dy, TRUE) /\ calls' = calls + 1) =>
              /\ 10 * (yaw' - yaw) = dx * AngleUnitsPerDegree
              /\ (dy = 0 => pitch' = pitch)
              /\ (calls = 0 /\ dx = 100 /\ dy = 0) =>
                     /\ yaw = -90 * AngleUnitsPerDegree
                     /\ yaw' = -80 * AngleUnitsPerDegree
                     /\ pitch' = 0]_vars

\* the fresh camera after ProcessMouseMovement(100, 0)
C5_Witness ==
    /\ calls = 1
    /\ yaw = -80 * AngleUnitsPerDegree
    /\ pitch = 0
    /\ cameraFront = SphericalFront(yaw, pitch)

----------------------------------------------------------------------------
(* IEEE-754 binary32 arithmetic on integers counting units of 2^-27.         *)
(* A float of magnitude 2^-4 or more (and below 16) is a whole number of      *)
(* units; the generators below never produce a smaller inexact value for the  *)
(* inputs of this model, and F32Div has no value where they would.            *)

F32One == 2 ^ 27

F32Half == F32One \div 2

RECURSIVE BitLength(_)
BitLength(n) == IF n = 0 THEN 0 ELSE 1 + BitLength(n \div 2)

\* the exact value n rounded to 24 significant bits, ties to even
F32Round(n) ==
    LET a == Abs(n)
        k == BitLength(a) - 24
    IN  IF k <= 0 THEN n
        ELSE LET u  == 2 ^ k
                 q  == a \div u
                 r  == a % u
                 up == r > u \div 2 \/ (r = u \div 2 /\ q % 2 = 1)
             IN  Sign(n) * (IF up THEN q + 1 ELSE q) * u

\* float + float
F32Add(a, b) == F32Round(a + b)

\* float - float
F32Sub(a, b) == F32Round(a - b)

\* (float)i * float, for an int i
F32MulInt(i, x) == F32Round(i * x)

\* float / (float)b for an int b > 0: the exact quotient rounded to 24 bits
F32Div(a, b) ==
    LET n  == Abs(a)
        qf == n \div b
    IN  CASE n % b = 0 -> F32Round(Sign(a) * qf)
          [] n % b # 0 /\ BitLength(qf) >= 24 ->
                LET u  == 2 ^ (BitLength(qf) - 24)
                    d  == b * u
                    q  == n \div d
                    r  == n % d
                    up == 2 * r > d \/ (2 * r = d /\ q % 2 = 1)
                IN  Sign(a) * (IF up THEN q + 1 ELSE q) * u

----------------------------------------------------------------------------
(* Mesh generators *)

\* a variant of GroundCell whose far corners are not advanced by step
GroundCell_NoAdvance(size, step, i, j) ==
    LET x == F32Add(-size, F32MulInt(i, step))
        z == F32Add(-size, F32MulInt(j, step))
        y == -F32One
    IN  <<x, y, z,  x, y, z,  x, y, z,
          x, y, z,  x, y, z,  x, y, z>>

\* Ground::generateVertices of no_test1.cpp: one grid cell, two triangles at y = -1
GroundCell(size, step, i, j) ==
    LET x  == F32Add(-size, F32MulInt(i, step))
        z  == F32Add(-size, F32MulInt(j, step))
        xs == F32Add(x, step)
        zs == F32Add(z, step)
        y  == -F32One
    IN  <<x, y, z,   xs, y, z,   x, y, zs,
          xs, y, z,  xs, y, zs,  x, y, zs>>

\* the floats inserted by the inner loop from column j on, for row i
RECURSIVE GroundInnerLoop(_, _, _, _, _)
GroundInnerLoop(size, step, resolution, i, j) ==
    IF j < resolution
    THEN GroundCell(size, step, i, j) \o GroundInnerLoop(size, step, resolution, i, j + 1)
    ELSE <<>>

\* the floats inserted by the outer loop from row i on
RECURSIVE GroundOuterLoop(_, _, _, _)
GroundOuterLoop(size, step, resolution, i) ==
    IF i < resolution
    THEN GroundInnerLoop(size, step, resolution, i, 0)
         \o GroundOuterLoop(size, step, resolution, i + 1)
    ELSE <<>>

\* Ground::generateVertices(size) of no_test1.cpp. `resolution` is the local
\* constant 500 of line 397, a parameter here so that the buffer can be enumerated.
generateVertices(size, resolution) ==
    LET step == F32Div(F32Round(size * 2), resolution)
    IN  GroundOuterLoop(size, step, resolution, 0)

\* Ground::generateVertices(size) of test3.cpp: a single quad
generateVerticesFlat(size) ==
    <<-size, -F32One, -size,   size, -F32One, -size,   -size, -F32One, size,
       size, -F32One, -size,   size, -F32One,  size,   -size, -F32One, size>>

\* glm::cross of two vectors with integer components
CrossInt(a, b) == <<a[2] * b[3] - a[3] * b[2],
                    a[3] * b[1] - a[1] * b[3],
                    a[1] * b[2] - a[2] * b[1]>>

\* a variant of getPoint that does not centre u and v by - 0.5f
getPoint_NotCentred(normal, side1, side2, step, u, v) ==
    LET a == F32MulInt(u, step)
        b == F32MulInt(v, step)
    IN  [k \in 1 .. 3 |->
            F32Add(F32Add(F32MulInt(normal[k], F32Half), F32MulInt(side1[k], a)),
                   F32MulInt(side2[k], b))]

\* the lambda getPoint(u, v) of Cube::addFace
getPoint(normal, side1, side2, step, u, v) ==
    LET a == F32Sub(F32MulInt(u, step), F32Half)
        b == F32Sub(F32MulInt(v, step), F32Half)
    IN  [k \in 1 .. 3 |->
            F32Add(F32Add(F32MulInt(normal[k], F32Half), F32MulInt(side1[k], a)),
                   F32MulInt(side2[k], b))]

\* a variant of FaceCell that emits the first triangle only
FaceCell_OneTriangle(normal, side1, side2, step, i, j) ==
    getPoint(normal, side1, side2, step, i, j)
    \o getPoint(normal, side1, side2, step, i + 1, j)
    \o getPoint(normal, side1, side2, step, i, j + 1)

\* the two triangles Cube::addFace emits for grid cell (i, j)
FaceCell(normal, side1, side2, step, i, j) ==
    LET p1 == getPoint(normal, side1, side2, step, i, j)
        p2 == getPoint(normal, side1, side2, step, i + 1, j)
        p3 == getPoint(normal, side1, side2, step, i, j + 1)
        p4 == getPoint(normal, side1, side2, step, i + 1, j + 1)
    IN  p1 \o p2 \o p3 \o p2 \o p4 \o p3

\* the floats inserted by the inner loop from column j on, for row i
RECURSIVE FaceInnerLoop(_, _, _, _, _, _, _)
FaceInnerLoop(normal, side1, side2, step, res, i, j) ==
    IF j < res
    THEN FaceCell(normal, side1, side2, step, i, j)
         \o FaceInnerLoop(normal, side1, side2, step, res, i, j + 1)
    ELSE <<>>

\* the floats inserted by the outer loop from row i on
RECURSIVE FaceOuterLoop(_, _, _, _, _, _)
FaceOuterLoop(normal, side1, side2, step, res, i) ==
    IF i < res
    THEN FaceInnerLoop(normal, side1, side2, step, res, i, 0)
         \o FaceOuterLoop(normal, side1, side2, step, res, i + 1)
    ELSE <<>>

\* Cube::addFace(vertices, normal, res): vertices with the face appended
addFace(vertices, normal, res) ==
    LET side1 == <<normal[2], normal[3], normal[1]>>
        side2 == CrossInt(normal, side1)
        step  == F32Div(F32One, res)
    IN  vertices \o FaceOuterLoop(normal, side1, side2, step, res, 0)

\* the six face normals of Cube::generateSubdividedCube
faces == << <<1, 0, 0>>, <<-1, 0, 0>>, <<0, 1, 0>>, <<0, -1, 0>>, <<0, 0, 1>>, <<0, 0, -1>> >>

\* for (auto& f : faces) addFace(vertices, f, res), after the first f faces
RECURSIVE FacesLoop(_, _)
FacesLoop(res, f) ==
    IF f = 0 THEN <<>> ELSE addFace(FacesLoop(res, f - 1), faces[f], res)

\* Cube::generateSubdividedCube(res)
generateSubdividedCube(res) == FacesLoop(res, Len(faces))

\* Cube::cubeVertices of test3.cpp, in halves: each entry is -0.5f or 0.5f
cubeVertexSigns ==
   <<
      -1, -1, -1,
       1, -1, -1,
       1,  1, -1,
       1,  1, -1,
      -1,  1, -1,
      -1, -1, -1,
      -1, -1,  1,
       1, -1,  1,
       1,  1,  1,
       1,  1,  1,
      -1,  1,  1,
      -1, -1,  1,
      -1,  1,  1,
      -1,  1, -1,
      -1, -1, -1,
      -1, -1, -1,
      -1, -1,  1,
      -1,  1,  1,
       1,  1,  1,
       1,  1, -1,
       1, -1, -1,
       1, -1, -1,
       1, -1,  1,
       1,  1,  1,
      -1, -1, -1,
       1, -1, -1,
       1, -1,  1,
       1, -1,  1,
      -1, -1,  1,
      -1, -1, -1,
      -1,  1, -1,
       1,  1, -1,
       1,  1,  1,
       1,  1,  1,
      -1,  1,  1,
      -1,  1, -1
   >>

cubeVertices == [k \in 1 .. Len(cubeVertexSigns) |-> cubeVertexSigns[k] * F32Half]

----------------------------------------------------------------------------
(* The graphics API: each entry point maps the API state g to the state after *)
(* the call.                                                                  *)

\* a name the API may hand out: the smallest one not in use
NewName(used) ==
    CHOOSE n \in 1 .. Cardinality(used) + 1 :
        n \notin used /\ \A m \in 1 .. n - 1 : m \in used

Called(g, name, k) == [g EXCEPT !.calls[name] = @ + k]

\* glGenVertexArrays(1, &VAO): the name handed out is NewName(DOMAIN g.vertexArrays)
glGenVertexArrays(g) ==
    LET name == NewName(DOMAIN g.vertexArrays)
    IN  Called([g EXCEPT !.vertexArrays =
                    [n \in DOMAIN g.vertexArrays \cup {name} |->
                        IF n = name THEN 0 ELSE g.vertexArrays[n]]],
               "glGenVertexArrays", 1)

\* glGenBuffers(1, &VBO): the name handed out is NewName(DOMAIN g.buffers)
glGenBuffers(g) ==
    LET name == NewName(DOMAIN g.buffers)
    IN  Called([g EXCEPT !.buffers =
                    [n \in DOMAIN g.buffers \cup {name} |->
                        IF n = name THEN <<>> ELSE g.buffers[n]]],
               "glGenBuffers", 1)

glBindVertexArray(g, name) == [g EXCEPT !.vertexArray = name]

\* glBindBuffer(GL_ARRAY_BUFFER, name)
glBindBuffer(g, name) == [g EXCEPT !.arrayBuffer = name]

\* glBufferData(GL_ARRAY_BUFFER, size * sizeof(float), vertices, GL_STATIC_DRAW)
glBufferData(g, size, vertices) ==
    [g EXCEPT !.buffers[g.arrayBuffer] = SubSeq(vertices, 1, size)]

\* glVertexAttribPointer(0, 3, GL_FLOAT, GL_FALSE, 3 * sizeof(float), 0) and
\* glEnableVertexAttribArray(0): attribute 0 of the bound vertex array reads
\* tightly packed float triples from the bound buffer
glVertexAttribPointer(g) == [g EXCEPT !.vertexArrays[g.vertexArray] = g.arrayBuffer]

\* glDrawArrays(GL_TRIANGLES, first, count)
glDrawArrays(g, first, count) ==
    [g EXCEPT !.lastDraw = [vertexArray |-> g.vertexArray, first |-> first, count |-> count]]

\* glDeleteVertexArrays(1, &name); a name not in use is silently ignored
glDeleteVertexArrays(g, name) ==
    LET g1 == Called(g, "glDeleteVertexArrays", 1)
    IN  IF name \in DOMAIN g.vertexArrays
        THEN [g1 EXCEPT !.vertexArrays = [n \in DOMAIN g.vertexArrays \ {name} |-> g.vertexArrays[n]],
                        !.vertexArray = IF g.vertexArray = name THEN 0 ELSE @]
        ELSE Called(g1, "deleteOfUnusedVertexArray", 1)

\* glDeleteBuffers(1, &name); a name not in use is silently ignored
glDeleteBuffers(g, name) ==
    LET g1 == Called(g, "glDeleteBuffers", 1)
    IN  IF name \in DOMAIN g.buffers
        THEN [g1 EXCEPT !.buffers = [n \in DOMAIN g.buffers \ {name} |-> g.buffers[n]],
                        !.arrayBuffer = IF g.arrayBuffer = name THEN 0 ELSE @]
        ELSE Called(g1, "deleteOfUnusedBuffer", 1)

\* glCreateShader(type): the name handed out is NewName(g.shaders)
glCreateShader(g) ==
    Called([g EXCEPT !.shaders = @ \cup {NewName(g.shaders)}], "glCreateShader", 1)

\* glDeleteShader(name)
glDeleteShader(g, name) ==
    Called([g EXCEPT !.shaders = @ \ {name}], "glDeleteShader", 1)

\* glCreateProgram(): the name handed out is NewName(g.programs)
glCreateProgram(g) ==
    Called([g EXCEPT !.programs = @ \cup {NewName(g.programs)}], "glCreateProgram", 1)

----------------------------------------------------------------------------
(* Program, Object and the renderables *)

\* Program::createShaderProgram: the API state after it. A failed compile or
\* link is only logged, so the calls made do not depend on it.
createShaderProgram(g) ==
    LET vertexShader   == NewName(g.shaders)
        g1             == glCreateShader(g)
        fragmentShader == NewName(g1.shaders)
        g2             == glCreateShader(g1)
        g3             == glCreateProgram(g2)
    IN  glDeleteShader(glDeleteShader(g3, vertexShader), fragmentShader)

\* a variant of VertexCount that counts floats, not vertices
VertexCount_Floats(size) == size

\* vertexCount = size / 3
VertexCount(size) == size \div 3

\* Object::Object(vertices, size): the API state after it
ObjectUpload(g, vertices, size) ==
    LET VAO == NewName(DOMAIN g.vertexArrays)
        VBO == NewName(DOMAIN g.buffers)
        g1  == glGenBuffers(glGenVertexArrays(g))
        g2  == glBindBuffer(glBindVertexArray(g1, VAO), VBO)
        g3  == glVertexAttribPointer(glBufferData(g2, size, vertices))
    IN  glBindVertexArray(glBindBuffer(g3, 0), 0)

\* a variant of ObjectRelease that deletes the vertex array and leaks the buffer
ObjectRelease_LeakBuffer(g, obj) == glDeleteVertexArrays(g, obj.VAO)

\* Object::~Object: the API state after it
ObjectRelease(g, obj) == glDeleteBuffers(glDeleteVertexArrays(g, obj.VAO), obj.VBO)

\* Object::Draw: the API state after it
ObjectDraw(g, obj) ==
    glBindVertexArray(glDrawArrays(glBindVertexArray(g, obj.VAO), 0, obj.vertexCount), 0)

\* Cube::Cube / Ground::Ground: the Object base from (vertices, size), then the
\* Program member
ConstructRenderable(args, vertices, size) ==
    /\ object = NoObject
    /\ gl.calls["glGenVertexArrays"] < MaxObjects
    /\ object' = [VAO           |-> NewName(DOMAIN gl.vertexArrays),
                  VBO           |-> NewName(DOMAIN gl.buffers),
                  vertexCount   |-> VertexCount(size),
                  shaderProgram |-> NewName(gl.programs)]
    /\ gl' = createShaderProgram(ObjectUpload(gl, vertices, size))
    /\ meshArgs' = args
    /\ UNCHANGED <<cameraVars, calls, engineVars, mainVars, cursorVars>>

\* Object(cubeVertices, 108) of test3.cpp
FlatCubeSize == 108

\* Cube cube(res) of no_test1.cpp
ConstructCube ==
    \E res \in 1 .. MaxRes :
        ConstructRenderable([class |-> "Cube", res |-> res],
                            generateSubdividedCube(res), Len(generateSubdividedCube(res)))

\* Cube cube of test3.cpp
ConstructFlatCube ==
    ConstructRenderable([class |-> "FlatCube"], cubeVertices, FlatCubeSize)

\* Ground ground(size, ...) of no_test1.cpp
ConstructGround ==
    \E size \in 1 .. MaxSize, resolution \in 1 .. MaxRes :
        ConstructRenderable([class |-> "Ground", size |-> size * F32One, resolution |-> resolution],
                            generateVertices(size * F32One, resolution),
                            Len(generateVertices(size * F32One, resolution)))

\* Ground ground(size, ...) of test3.cpp
ConstructFlatGround ==
    \E size \in 1 .. MaxSize :
        ConstructRenderable([class |-> "FlatGround", size |-> size * F32One],
                            generateVerticesFlat(size * F32One),
                            Len(generateVerticesFlat(size * F32One)))

\* object.Draw()
DrawRenderable ==
    /\ object # NoObject
    /\ gl' = ObjectDraw(gl, object)
    /\ UNCHANGED <<cameraVars, calls, engineVars, meshVars, mainVars, cursorVars>>

\* the renderable goes out of scope: ~Program does nothing, then ~Object
DestroyRenderable ==
    /\ object # NoObject
    /\ gl' = ObjectRelease(gl, object)
    /\ object' = NoObject
    /\ meshArgs' = NoArgs
    /\ UNCHANGED <<cameraVars, calls, engineVars, mainVars, cursorVars>>

----------------------------------------------------------------------------
(* SpecMesh: renderables constructed, drawn and destroyed one after the other *)

InitMesh ==
    /\ CameraInit
    /\ calls = 0
    /\ EngineInit
    /\ GLInit
    /\ MeshInit
    /\ MainInit
    /\ world = "curved"
    /\ CursorInit

NextMesh ==
    \/ ConstructCube
    \/ ConstructFlatCube
    \/ ConstructGround
    \/ ConstructFlatGround
    \/ DrawRenderable
    \/ DestroyRenderable

SpecMesh == InitMesh /\ [][NextMesh]_vars

----------------------------------------------------------------------------
(* Claims about the meshes and the Object *)

\* the floats uploaded for the live renderable
Uploaded == gl.buffers[object.VBO]

\* the k-th coordinate (1: x, 2: y, 3: z) of every vertex of buf
Coordinates(buf, k) == {buf[3 * (n - 1) + k] : n \in 1 .. Len(buf) \div 3}

SetMin(S) == CHOOSE m \in S : \A x \in S : m <= x

SetMax(S) == CHOOSE m \in S : \A x \in S : x <= m

IsGround == meshArgs.class \in {"Ground", "FlatGround"}

\* C6: a cube of resolution R has 6*R*R*6 vertices, 108*R*R floats, a multiple of
\* 9; the hard-coded cube of the flat world is the R = 1 case with 36 vertices.
C6_CubeVertexCount ==
    /\ meshArgs.class = "Cube" =>
          /\ Len(Uploaded) = 108 * meshArgs.res * meshArgs.res
          /\ object.vertexCount = 6 * meshArgs.res * meshArgs.res * 6
          /\ Len(Uploaded) % 9 = 0
    /\ meshArgs.class = "FlatCube" =>
          /\ Len(Uploaded) = 108 * 1 * 1
          /\ object.vertexCount = 36

\* a subdivided cube is alive
C6_Witness == meshArgs.class = "Cube" /\ meshArgs.res >= 3 /\ Len(Uploaded) > 108

\* C7: every vertex of a generated cube has its three coordinates in [-0.5, 0.5]
\* and lies on the plane of its face: its coordinate along the face normal's axis
\* is 0.5 times the normal's component.
C7_CubeVerticesOnFaces ==
    meshArgs.class = "Cube" =>
        LET perFace == 6 * meshArgs.res * meshArgs.res
        IN  \A n \in 1 .. Len(Uploaded) \div 3 :
                LET f == ((n - 1) \div perFace) + 1
                IN  /\ f <= Len(faces)
                    /\ \A k \in 1 .. 3 :
                           LET c == Uploaded[3 * (n - 1) + k]
                           IN  /\ c >= -F32Half
                               /\ c <= F32Half
                               /\ faces[f][k] # 0 => c = faces[f][k] * F32Half

\* a subdivided cube is alive with vertices strictly inside its faces
C7_Witness ==
    /\ meshArgs.class = "Cube"
    /\ meshArgs.res = 3
    /\ \E c \in Coordinates(Uploaded, 1) : c # F32Half /\ c # -F32Half

\* C8 (as claimed): every ground vertex has Y = -1, every X and Z lies in [-S, S],
\* and the minimum and maximum of X and of Z are exactly -S and +S.
C8_GroundSpansExactly ==
    IsGround =>
        /\ Coordinates(Uploaded, 2) = {-F32One}
        /\ \A k \in {1, 3} :
              /\ \A c \in Coordinates(Uploaded, k) : -meshArgs.size <= c /\ c <= meshArgs.size
              /\ SetMin(Coordinates(Uploaded, k)) = -meshArgs.size
              /\ SetMax(Coordinates(Uploaded, k)) = meshArgs.size

\* the rounding error allowed on a coordinate of a ground of half-extent size: size / 2^20
GroundTolerance(size) == size \div 2 ^ 20

\* C8 (amended): every ground vertex has Y = -1, no X or Z is below -S, the
\* minimum of X and of Z is exactly -S, and every X and Z is at most S plus a
\* rounding error of S / 2^20 with the maximum within that error of S; for the
\* single quad of the flat world the maximum is exactly S.
C8_GroundSpansWithinRounding ==
    IsGround =>
        /\ Coordinates(Uploaded, 2) = {-F32One}
        /\ \A k \in {1, 3} :
              /\ \A c \in Coordinates(Uploaded, k) :
                     -meshArgs.size <= c /\ c <= meshArgs.size + GroundTolerance(meshArgs.size)
              /\ SetMin(Coordinates(Uploaded, k)) = -meshArgs.size
              /\ Abs(SetMax(Coordinates(Uploaded, k)) - meshArgs.size)
                     <= GroundTolerance(meshArgs.size)
              /\ meshArgs.class = "FlatGround" =>
                     SetMax(Coordinates(Uploaded, k)) = meshArgs.size

\* a subdivided ground is alive whose largest X is not S
C8_Witness ==
    /\ meshArgs.class = "Ground"
    /\ SetMax(Coordinates(Uploaded, 1)) # meshArgs.size

\* C9: the ground of resolution N has N*N*6 vertices, N*N*6*3 floats (18 floats
\* for the single quad), and every draw of it is handed that number of vertices.
C9_GroundVertexCount ==
    /\ [](/\ meshArgs.class = "Ground" =>
                /\ Len(Uploaded) = meshArgs.resolution * meshArgs.resolution * 6 * 3
                /\ object.vertexCount = meshArgs.resolution * meshArgs.resolution * 6
          /\ meshArgs.class = "FlatGround" =>
                /\ Len(Uploaded) = 18
                /\ object.vertexCount = 6)
    /\ [][(IsGround /\ DrawRenderable) =>
              /\ gl'.lastDraw.first = 0
              /\ 3 * gl'.lastDraw.count = Len(Uploaded)]_vars

\* a subdivided ground is alive and has been drawn
C9_Witness ==
    /\ meshArgs.class = "Ground"
    /\ meshArgs.resolution >= 2
    /\ gl.lastDraw.count = meshArgs.resolution * meshArgs.resolution * 6

\* C10: constructing an Object creates exactly one vertex array and one buffer,
\* destroying it deletes each of the two exactly once: while it is alive one of
\* each is in use, after its destruction none is, the create calls equal the
\* delete calls, and no delete was handed a name not in use.
C10_ObjectHandlesPaired ==
    /\ gl.calls["deleteOfUnusedVertexArray"] = 0
    /\ gl.calls["deleteOfUnusedBuffer"] = 0
    /\ object # NoObject =>
          /\ DOMAIN gl.vertexArrays = {object.VAO}
          /\ DOMAIN gl.buffers = {object.VBO}
          /\ gl.calls["glGenVertexArrays"] = gl.calls["glDeleteVertexArrays"] + 1
          /\ gl.calls["glGenBuffers"] = gl.calls["glDeleteBuffers"] + 1
    /\ object = NoObject =>
          /\ DOMAIN gl.vertexArrays = {}
          /\ DOMAIN gl.buffers = {}
          /\ gl.calls["glGenVertexArrays"] = gl.calls["glDeleteVertexArrays"]
          /\ gl.calls["glGenBuffers"] = gl.calls["glDeleteBuffers"]

\* an Object has been constructed and destroyed
C10_Witness ==
    /\ object = NoObject
    /\ gl.calls["glGenVertexArrays"] = 1
    /\ gl.calls["glDeleteVertexArrays"] = 1
    /\ gl.calls["glDeleteBuffers"] = 1

----------------------------------------------------------------------------
(* main: scene setup, the frame loop and teardown *)

\* frame-loop iterations started in SpecMain
MaxFrames == 2
\* cursor events delivered in SpecMain
MaxMainEvents == 2
\* the subdivision of main's cubes and ground (10 and 500 in the source)
MainRes == 1

\* the ring of cubes: Cube cube[5]
RingCubes == <<"cube[0]", "cube[1]", "cube[2]", "cube[3]", "cube[4]">>

\* main's renderables in the order of their definitions
Locals(w) == IF w = "curved" THEN RingCubes \o <<"cube1", "ground">> ELSE RingCubes \o <<"ground">>

\* the vertex data a renderable of main is constructed from
MeshVertices(w, name) ==
    IF name = "ground"
    THEN IF w = "curved"
         THEN generateVertices(MaxSize * F32One, MainRes)
         ELSE generateVerticesFlat(MaxSize * F32One)
    ELSE IF w = "curved" THEN generateSubdividedCube(MainRes) ELSE cubeVertices

\* the value of an unsigned int member that was never written
Indeterminate == -1

\* glUseProgram(shader), glUniform*(glGetUniformLocation(shader, name), ...), Draw
RenderCalls(name) ==
    <<[call |-> "glUseProgram", who |-> name],
      [call |-> "SetUniform", who |-> name],
      [call |-> "Draw", who |-> name]>>

\* the ring loop of main: for (int i = 0; i < 5; i++) { ... }
RECURSIVE RingLoop(_)
RingLoop(i) == IF i < 5 THEN RenderCalls(RingCubes[i + 1]) \o RingLoop(i + 1) ELSE <<>>

\* a variant of loopBody that presents before it draws
loopBody_PresentFirst(w) ==
    <<[call |-> "processInput", who |-> "engine"],
      [call |-> "glClear", who |-> "main"],
      [call |-> "GetViewMatrix", who |-> "camera"],
      [call |-> "glfwSwapBuffers", who |-> "main"]>>
    \o RenderCalls("ground") \o RingLoop(0)
    \o (IF w = "curved" THEN RenderCalls("cube1") ELSE <<>>)
    \o <<[call |-> "glfwPollEvents", who |-> "main"]>>

\* the body of while (!glfwWindowShouldClose(window)), call by call
loopBody(w) ==
    <<[call |-> "processInput", who |-> "engine"],
      [call |-> "glClear", who |-> "main"],
      [call |-> "GetViewMatrix", who |-> "camera"]>>
    \o RenderCalls("ground") \o RingLoop(0)
    \o (IF w = "curved" THEN RenderCalls("cube1") ELSE <<>>)
    \o <<[call |-> "glfwSwapBuffers", who |-> "main"],
         [call |-> "glfwPollEvents", who |-> "main"]>>

\* Camera::GetViewMatrix: the arguments of glm::lookAt
GetViewMatrix(pos, front) == [eye |-> pos, center |-> VecAdd(pos, front), up |-> cameraUp]

\* a variant of glUseProgram that leaves the program in use as it is
glUseProgram_Ignored(g, program) == g

\* glUseProgram(program)
glUseProgram(g, program) == [g EXCEPT !.program = program]

\* glUniform*(glGetUniformLocation(program, name), value): the location is looked
\* up in program, the value goes to the program in use
glUniform(g, program, name, value) ==
    [g EXCEPT !.uniforms = {u \in @ : u.into # g.program \/ u.name # name}
                           \cup {[of |-> program, into |-> g.program,
                                  name |-> name, value |-> value]}]

\* Cube::SetUniform / Ground::SetUniform of a renderable with program p: the
\* API state after it
SetUniform(g, p, v) ==
    glUniform(glUniform(glUniform(g, p, "model", "model"), p, "view", v),
              p, "projection", "projection")

\* the API is usable: loaded, with the window's context current
GLAvailable == glfw = "initialised" /\ window = "open" /\ glad

\* the renderable of main with the given name
Renderable(name) == CHOOSE r \in {renderables[n] : n \in 1 .. Len(renderables)} : r.name = name

\* keys seen by processInput in SpecMain
MainKeySets == {{}, {"W"}, {"ESCAPE"}}

\* cursor positions delivered in SpecMain
MainCursorXs == {Width \div 2, Width \div 2 + 100}
MainCursorYs == {Height \div 2 - 25}

----------------------------------------------------------------------------
(* The cursor callback in binary32 arithmetic *)

\* sensitivity = 0.1f, in units of 2^-27
F32Tenth == 13421773

\* xoffset *= sensitivity for a whole number of pixels, in units of 2^-27
F32ScaleBySensitivity(xoffset) == F32MulInt(xoffset, F32Tenth)

\* yaw += xoffset: yaw in units of 2^-17 (the spacing of binary32 values of
\* magnitude 64 to 128), xoffset in units of 2^-27; the exact sum is rounded
\* to the nearest unit, ties to even. Defined while the sum stays in that range.
F32YawAdd(y, x) ==
    LET lo  == y + (x \div 2 ^ 10)
        r   == x % 2 ^ 10
        sum == IF r > 2 ^ 9 \/ (r = 2 ^ 9 /\ lo % 2 # 0) THEN lo + 1 ELSE lo
    IN  CASE Abs(sum) >= 2 ^ 23 /\ Abs(sum) <= 2 ^ 24 -> sum

\* Engine::mouse_callback(window, xpos, ypos) together with what it does to the
\* binary32 yaw: xoffset = xpos - lastX is exact for whole pixels
CursorDelivered(xpos, ypos) ==
    /\ mouse_callback(xpos, ypos)
    /\ events' = events + 1
    /\ firstX' = IF firstMouse THEN xpos ELSE firstX
    /\ yawF32' = IF userPointer = "null"
                 THEN yawF32
                 ELSE F32YawAdd(yawF32,
                                F32ScaleBySensitivity(xpos - (IF firstMouse THEN xpos ELSE lastX)))

----------------------------------------------------------------------------
(* main, step by step *)

platformVars == <<glfw, window, glad>>

\* the process faults in a call made without a usable API
Faults ==
    /\ ~GLAvailable
    /\ pc' = "exited"
    /\ exit' = "crashed"
    /\ UNCHANGED <<loopIndex, frameLog>>

\* the entry points called are recorded if the API is not usable
Calls(names) == strayCalls' = IF GLAvailable THEN strayCalls ELSE strayCalls \cup names

\* engine.init(): init_glfw()
init_glfw ==
    /\ pc = "init_glfw"
    /\ glfw' = "initialised"
    /\ pc' = "creat_window"
    /\ UNCHANGED <<cameraVars, calls, engineVars, glVars, meshVars, cursorVars, loopIndex, world,
                   window, glad, renderables, frames, frameLog, view, stdout, exit, strayCalls>>

\* engine.init(): creat_window(); glfwCreateWindow returns a window or NULL
creat_window ==
    /\ pc = "creat_window"
    /\ \E created \in BOOLEAN :
          IF created
          THEN /\ window' = "open"
               /\ userPointer' = "engine"
               /\ UNCHANGED <<glfw, stdout>>
          ELSE /\ window' = "NULL"
               /\ stdout' = Append(stdout, "Failed to create GLFW window")
               /\ glfw' = "terminated"
               /\ UNCHANGED userPointer
    /\ pc' = "init_glad"
    /\ UNCHANGED <<cameraVars, calls, firstMouse, lastX, lastY, lastFrame, deltaTime, shouldClose,
                   glVars, meshVars, cursorVars, loopIndex, world, glad, renderables, frames,
                   frameLog, view, exit, strayCalls>>

\* engine.init(): init_glad(), then lastFrame = 0.0f; the loader finds the
\* entry points if and only if a context is current
init_glad ==
    /\ pc = "init_glad"
    /\ glad' = (glfw = "initialised" /\ window = "open")
    /\ stdout' = IF glad' THEN stdout ELSE Append(stdout, "err: 1")
    /\ lastFrame' = 0
    /\ pc' = "construct"
    /\ loopIndex' = 1
    /\ UNCHANGED <<cameraVars, calls, firstMouse, lastX, lastY, deltaTime, userPointer,
                   shouldClose, glVars, meshVars, cursorVars, world, glfw, window, renderables,
                   frames, frameLog, view, exit, strayCalls>>

\* the renderable main defines next, and its vertex data
NextLocal == Locals(world)[loopIndex]

\* the members of a renderable constructed from vertices on API state g; no
\* handle is written if the API is not usable
Constructed(g, name, vertices) ==
    [name          |-> name,
     VAO           |-> IF GLAvailable THEN NewName(DOMAIN g.vertexArrays) ELSE Indeterminate,
     VBO           |-> IF GLAvailable THEN NewName(DOMAIN g.buffers) ELSE Indeterminate,
     vertexCount   |-> VertexCount(Len(vertices)),
     shaderProgram |-> IF GLAvailable THEN NewName(g.programs) ELSE Indeterminate]

\* the definition of the next renderable of main: the Object base, then the
\* Program member
Construct ==
    /\ pc = "construct"
    /\ gl' = IF GLAvailable
             THEN createShaderProgram(ObjectUpload(gl, MeshVertices(world, NextLocal),
                                                   Len(MeshVertices(world, NextLocal))))
             ELSE gl
    /\ renderables' = Append(renderables,
                             Constructed(gl, NextLocal, MeshVertices(world, NextLocal)))
    /\ Calls({"glGenVertexArrays", "glGenBuffers", "glBindVertexArray", "glBindBuffer",
              "glBufferData", "glVertexAttribPointer", "glCreateShader", "glCreateProgram",
              "glDeleteShader"})
    /\ \/ /\ IF loopIndex < Len(Locals(world))
             THEN pc' = pc /\ loopIndex' = loopIndex + 1
             ELSE pc' = "glEnable" /\ loopIndex' = 0
          /\ UNCHANGED <<exit, frameLog>>
       \/ Faults
    /\ UNCHANGED <<cameraVars, calls, engineVars, meshVars, cursorVars, world, platformVars,
                   frames, view, stdout>>

\* the handles are read with getShaderProgram(), then glEnable(GL_DEPTH_TEST)
glEnable ==
    /\ pc = "glEnable"
    /\ Calls({"glEnable"})
    /\ \/ pc' = "loop_test" /\ UNCHANGED <<loopIndex, exit, frameLog>>
       \/ Faults
    /\ UNCHANGED <<cameraVars, calls, engineVars, glVars, meshVars, cursorVars, world,
                   platformVars, renderables, frames, view, stdout>>

\* while (!glfwWindowShouldClose(window)): without a window the call is made on
\* NULL after termination, which the library answers with 0 or an assertion stops
LoopTest ==
    /\ pc = "loop_test"
    /\ \/ /\ shouldClose
          /\ pc' = "glfwTerminate"
          /\ UNCHANGED <<loopIndex, frames, frameLog, exit>>
       \/ /\ ~shouldClose
          /\ frames < MaxFrames
          /\ pc' = "frame"
          /\ loopIndex' = 1
          /\ frames' = frames + 1
          /\ frameLog' = <<>>
          /\ UNCHANGED exit
       \/ /\ window = "NULL"
          /\ pc' = "exited"
          /\ exit' = "crashed"
          /\ UNCHANGED <<loopIndex, frames, frameLog>>
    /\ UNCHANGED <<cameraVars, calls, engineVars, glVars, meshVars, cursorVars, world,
                   platformVars, renderables, view, stdout, strayCalls>>

\* main is at the given call of the loop body
AtCall(call) == pc = "frame" /\ loopBody(world)[loopIndex].call = call

\* the renderable the current call of the loop body is about
Current == Renderable(loopBody(world)[loopIndex].who)

\* the current call of the loop body returns: it is logged and main moves on
Returns ==
    /\ frameLog' = Append(frameLog, loopBody(world)[loopIndex])
    /\ IF loopIndex < Len(loopBody(world))
       THEN pc' = pc /\ loopIndex' = loopIndex + 1
       ELSE pc' = "loop_test" /\ loopIndex' = 0
    /\ UNCHANGED exit

\* engine.processInput(window): no key is seen down without a window
MainProcessInput ==
    /\ AtCall("processInput")
    /\ \E pressed \in MainKeySets, currentFrame \in Times :
          /\ currentFrame >= lastFrame
          /\ window # "open" => pressed = {}
          /\ processInput(pressed, currentFrame)
    /\ Returns
    /\ UNCHANGED <<calls, firstMouse, lastX, lastY, userPointer, glVars, meshVars, cursorVars,
                   world, platformVars, renderables, frames, view, stdout, strayCalls>>

\* glClearColor(...); glClear(GL_COLOR_BUFFER_BIT | GL_DEPTH_BUFFER_BIT)
glClear ==
    /\ AtCall("glClear")
    /\ Calls({"glClearColor", "glClear"})
    /\ Returns \/ Faults
    /\ UNCHANGED <<cameraVars, calls, engineVars, glVars, meshVars, cursorVars, world,
                   platformVars, renderables, frames, view, stdout>>

\* view = camera.GetViewMatrix(); projection = glm::perspective(...)
MainGetViewMatrix ==
    /\ AtCall("GetViewMatrix")
    /\ view' = GetViewMatrix(cameraPos, cameraFront)
    /\ Returns
    /\ UNCHANGED <<cameraVars, calls, engineVars, glVars, meshVars, cursorVars, world,
                   platformVars, renderables, frames, stdout, strayCalls>>

\* glUseProgram(groundShader) / glUseProgram(cubeshader[i]) / glUseProgram(cube1shader)
MainUseProgram ==
    /\ AtCall("glUseProgram")
    /\ gl' = IF GLAvailable THEN glUseProgram(gl, Current.shaderProgram) ELSE gl
    /\ Calls({"glUseProgram"})
    /\ Returns \/ Faults
    /\ UNCHANGED <<cameraVars, calls, engineVars, meshVars, cursorVars, world, platformVars,
                   renderables, frames, view, stdout>>

\* ground.SetUniform(view, projection) / cube[i].SetUniform(cubeModel[i], view, projection)
MainSetUniform ==
    /\ AtCall("SetUniform")
    /\ gl' = IF GLAvailable THEN SetUniform(gl, Current.shaderProgram, view) ELSE gl
    /\ Calls({"glGetUniformLocation", "glUniformMatrix4fv"})
    /\ Returns \/ Faults
    /\ UNCHANGED <<cameraVars, calls, engineVars, meshVars, cursorVars, world, platformVars,
                   renderables, frames, view, stdout>>

\* ground.Draw() / cube[i].Draw() / cube1.Draw()
MainDraw ==
    /\ AtCall("Draw")
    /\ gl' = IF GLAvailable THEN ObjectDraw(gl, Current) ELSE gl
    /\ Calls({"glBindVertexArray", "glDrawArrays"})
    /\ Returns \/ Faults
    /\ UNCHANGED <<cameraVars, calls, engineVars, meshVars, cursorVars, world, platformVars,
                   renderables, frames, view, stdout>>

\* glfwSwapBuffers(window)
glfwSwapBuffers ==
    /\ AtCall("glfwSwapBuffers")
    /\ Returns
    /\ UNCHANGED <<cameraVars, calls, engineVars, glVars, meshVars, cursorVars, world,
                   platformVars, renderables, frames, view, stdout, strayCalls>>

\* a variant of DispatchesEvents in which callbacks run at any call
DispatchesEvents_Anywhere(call) == TRUE

\* the library runs the window's callbacks inside glfwPollEvents only
DispatchesEvents(call) == call = "glfwPollEvents"

\* a cursor-position event is handed to Engine::mouse_callback
DispatchCursor ==
    /\ pc = "frame"
    /\ window = "open"
    /\ DispatchesEvents(loopBody(world)[loopIndex].call)
    /\ events < MaxMainEvents
    /\ \E xpos \in MainCursorXs, ypos \in MainCursorYs : CursorDelivered(xpos, ypos)
    /\ UNCHANGED <<calls, lastFrame, deltaTime, userPointer, shouldClose, glVars, meshVars,
                   mainVars>>

\* the user asks to close the window: the library sets the close flag
DispatchClose ==
    /\ pc = "frame"
    /\ window = "open"
    /\ DispatchesEvents(loopBody(world)[loopIndex].call)
    /\ ~shouldClose
    /\ shouldClose' = TRUE
    /\ UNCHANGED <<cameraVars, calls, firstMouse, lastX, lastY, lastFrame, deltaTime,
                   userPointer, glVars, meshVars, mainVars, cursorVars>>

\* glfwPollEvents() returns
glfwPollEvents ==
    /\ AtCall("glfwPollEvents")
    /\ Returns
    /\ UNCHANGED <<cameraVars, calls, engineVars, glVars, meshVars, cursorVars, world,
                   platformVars, renderables, frames, view, stdout, strayCalls>>

\* glfwTerminate(): the window and its context are destroyed
glfwTerminate ==
    /\ pc = "glfwTerminate"
    /\ glfw' = "terminated"
    /\ window' = IF window = "open" THEN "destroyed" ELSE window
    /\ pc' = "return"
    /\ UNCHANGED <<cameraVars, calls, engineVars, glVars, meshVars, cursorVars, loopIndex, world,
                   glad, renderables, frames, frameLog, view, stdout, exit, strayCalls>>

\* return 0: the locals are destroyed next, the last defined first
Return ==
    /\ pc = "return"
    /\ pc' = "destroy"
    /\ loopIndex' = Len(renderables)
    /\ UNCHANGED <<cameraVars, calls, engineVars, glVars, meshVars, cursorVars, world,
                   platformVars, renderables, frames, frameLog, view, stdout, exit, strayCalls>>

\* the destructor of the last renderable still alive: ~Program does nothing,
\* then Object::~Object; after the last one main has returned 0
Destroy ==
    /\ pc = "destroy"
    /\ loopIndex > 0
    /\ gl' = IF GLAvailable THEN ObjectRelease(gl, renderables[loopIndex]) ELSE gl
    /\ Calls({"glDeleteVertexArrays", "glDeleteBuffers"})
    /\ \/ /\ renderables' = SubSeq(renderables, 1, loopIndex - 1)
          /\ loopIndex' = loopIndex - 1
          /\ UNCHANGED <<pc, exit, frameLog>>
       \/ Faults /\ UNCHANGED renderables
    /\ UNCHANGED <<cameraVars, calls, engineVars, meshVars, cursorVars, world, platformVars,
                   frames, view, stdout>>

\* main has returned: the process exits with code 0
Exit ==
    /\ pc = "destroy"
    /\ loopIndex = 0
    /\ pc' = "exited"
    /\ exit' = "returned 0"
    /\ UNCHANGED <<cameraVars, calls, engineVars, glVars, meshVars, cursorVars, loopIndex, world,
                   platformVars, renderables, frames, frameLog, view, stdout, strayCalls>>

----------------------------------------------------------------------------
(* SpecMain: a run of main of either program *)

InitMain ==
    /\ CameraInit
    /\ calls = 0
    /\ firstMouse = TRUE
    /\ lastX = Width \div 2
    /\ lastY = Height \div 2
    /\ lastFrame = 0
    /\ deltaTime = 0
    /\ userPointer = "null"
    /\ shouldClose = FALSE
    /\ GLInit
    /\ MeshInit
    /\ MainInit
    /\ world \in {"curved", "flat"}
    /\ CursorInit

\* the steps of the program itself
MainThread ==
    \/ init_glfw
    \/ creat_window
    \/ init_glad
    \/ Construct
    \/ glEnable
    \/ LoopTest
    \/ MainProcessInput
    \/ glClear
    \/ MainGetViewMatrix
    \/ MainUseProgram
    \/ MainSetUniform
    \/ MainDraw
    \/ glfwSwapBuffers
    \/ glfwPollEvents
    \/ glfwTerminate
    \/ Return
    \/ Destroy
    \/ Exit

NextMain == MainThread \/ DispatchCursor \/ DispatchClose

SpecMain == InitMain /\ [][NextMain]_vars

\* the steps of the program from the clear of an iteration to its exit
RunsOn ==
    \/ glClear
    \/ MainGetViewMatrix
    \/ MainUseProgram
    \/ MainSetUniform
    \/ MainDraw
    \/ glfwSwapBuffers
    \/ glfwPollEvents
    \/ LoopTest
    \/ glfwTerminate
    \/ Return
    \/ Destroy
    \/ Exit

\* the program keeps running: it is the only thread and none of these steps blocks
SpecMainFair == SpecMain /\ WF_vars(RunsOn)

----------------------------------------------------------------------------
(* Claims about main *)

\* the entry points that create or release a handle
HandleCalls ==
    {"glGenVertexArrays", "glGenBuffers", "glDeleteVertexArrays", "glDeleteBuffers",
     "glCreateShader", "glDeleteShader", "glCreateProgram"}

\* C11: by the time main has run to its end every handle it created (vertex
\* arrays, buffers, shader stages, linked programs) has been released, each
\* exactly once and by a call the API received, and while the frame loop runs no
\* handle is created or released.
C11_HandlesReleasedOnce ==
    /\ [](exit = "returned 0" =>
             /\ DOMAIN gl.vertexArrays = {}
             /\ DOMAIN gl.buffers = {}
             /\ gl.shaders = {}
             /\ gl.programs = {}
             /\ gl.calls["deleteOfUnusedVertexArray"] = 0
             /\ gl.calls["deleteOfUnusedBuffer"] = 0
             /\ strayCalls \cap HandleCalls = {})
    /\ [][pc = "frame" =>
             /\ \A c \in HandleCalls : gl'.calls[c] = gl.calls[c]
             /\ strayCalls' \cap HandleCalls = strayCalls \cap HandleCalls]_vars

\* C12: once window creation has failed, the failure is on standard output, no
\* renderable (mesh or shader program) is constructed, no API call is issued
\* and no frame-loop iteration runs.
C12_WindowFailureStopsEarly ==
    window = "NULL" =>
        /\ \E n \in 1 .. Len(stdout) : stdout[n] = "Failed to create GLFW window"
        /\ renderables = <<>>
        /\ strayCalls = {}
        /\ frames = 0
        /\ pc \notin {"frame", "glEnable"}

\* C13: the frame loop is left only with the close flag set; an iteration whose
\* processInput sees the escape key sets the flag, the iteration still runs to
\* the end of its body, no further iteration starts, and the program goes on to
\* glfwTerminate and exits with code 0.
C13_EscapeEndsTheRun ==
    /\ [][(pc = "loop_test" /\ pc' = "glfwTerminate") => shouldClose]_vars
    /\ [][\A currentFrame \in Times :
              (AtCall("processInput") /\ processInput({"ESCAPE"}, currentFrame))
                  => shouldClose']_vars
    /\ [][shouldClose => frames' = frames]_vars
    /\ (shouldClose /\ AtCall("glClear")) ~> (pc = "glfwTerminate" /\ frameLog = loopBody(world))
    /\ shouldClose ~> (exit = "returned 0")


\* the steps of an iteration in the order claimed: input, clear, view and
\* projection, the draw of each renderable, present, event poll
ClaimedOrder(w) ==
    <<[call |-> "processInput", who |-> "engine"],
      [call |-> "glClear", who |-> "main"],
      [call |-> "GetViewMatrix", who |-> "camera"],
      [call |-> "Draw", who |-> "ground"],
      [call |-> "Draw", who |-> "cube[0]"],
      [call |-> "Draw", who |-> "cube[1]"],
      [call |-> "Draw", who |-> "cube[2]"],
      [call |-> "Draw", who |-> "cube[3]"],
      [call |-> "Draw", who |-> "cube[4]"]>>
    \o (IF w = "curved" THEN <<[call |-> "Draw", who |-> "cube1"]>> ELSE <<>>)
    \o <<[call |-> "glfwSwapBuffers", who |-> "main"],
         [call |-> "glfwPollEvents", who |-> "main"]>>

IsClaimedStep(e) == e.call \notin {"glUseProgram", "SetUniform"}

\* the steps of the current iteration so far, without the program bindings and
\* uniform uploads
Observed == SelectSeq(frameLog, IsClaimedStep)

\* C14: the steps of every frame-loop iteration occur in the order input, clear,
\* view/projection, then the draw of each renderable exactly once (ground, the
\* five ring cubes, and the extra cube in the curved world), present, event
\* poll; so no draw comes before the clear or after the present.
C14_FrameStepsInOrder ==
    /\ Len(Observed) <= Len(ClaimedOrder(world))
    /\ Observed = SubSeq(ClaimedOrder(world), 1, Len(Observed))
    /\ (pc = "loop_test" /\ frames > 0) => Observed = ClaimedOrder(world)

\* the second iteration of the curved world has run to its end on a usable API
C14_Witness ==
    /\ world = "curved"
    /\ GLAvailable
    /\ pc = "loop_test"
    /\ frames = 2
    /\ Len(Observed) = 12

\* C15: whenever a renderable's SetUniform or Draw is about to be issued the
\* program in use is that renderable's own, and every uniform value uploaded
\* went to the program whose location was looked up.
C15_OwnProgramBound ==
    /\ (GLAvailable /\ (AtCall("SetUniform") \/ AtCall("Draw"))) =>
           /\ gl.program = Current.shaderProgram
           /\ \A n \in 1 .. Len(renderables) :
                  renderables[n].shaderProgram = gl.program => renderables[n] = Current
    /\ \A u \in gl.uniforms : u.into = u.of

\* every renderable of the curved world has received its uniforms
C15_Witness ==
    /\ world = "curved"
    /\ pc = "loop_test"
    /\ frames >= 1
    /\ {u.into : u \in gl.uniforms} = {renderables[n].shaderProgram : n \in 1 .. 7}
    /\ Cardinality({u.into : u \in gl.uniforms}) = 7

\* main is between the return of GetViewMatrix and the return of the last Draw
Rendering == pc = "frame" /\ loopBody(world)[loopIndex].call \in {"glUseProgram", "SetUniform", "Draw"}

\* C16: from GetViewMatrix to the last draw of an iteration the camera does not
\* change, so the view held by main is the camera's and every renderable of the
\* frame is given that same view.
C16_CameraStableWhileRendering ==
    /\ [](Rendering => view = GetViewMatrix(cameraPos, cameraFront))
    /\ [][Rendering => UNCHANGED cameraVars]_vars
    /\ []((GLAvailable /\ AtCall("glfwSwapBuffers")) =>
             \A u \in gl.uniforms : u.name = "view" => u.value = view)

\* a frame has been drawn after the cursor turned and the keys moved the camera
C16_Witness ==
    /\ GLAvailable
    /\ AtCall("glfwSwapBuffers")
    /\ yaw # -90 * AngleUnitsPerDegree
    /\ cameraPos # Vec3(0, 0, 4 * FixOne)
    /\ \A n \in 1 .. Len(renderables) :
           \E u \in gl.uniforms : u.into = renderables[n].shaderProgram /\ u.value = view

\* C17: every release call of an Object destructor is issued while the context
\* still exists, that is before glfwTerminate.
C17_ReleaseBeforeTerminate ==
    /\ (pc = "destroy" /\ loopIndex > 0) => (glfw = "initialised" /\ window = "open")
    /\ "glDeleteVertexArrays" \notin strayCalls
    /\ "glDeleteBuffers" \notin strayCalls

----------------------------------------------------------------------------
(* SpecCursor: cursor events delivered to the callback of a running window *)

\* cursor events delivered in SpecCursor
MaxEvents == 3

\* cursor positions, in pixels, around the window centre
NearCursorXs == {Width \div 2, Width \div 2 + 1, Width \div 2 + 3, Width \div 2 + 100}
NearCursorYs == {Height \div 2, Height \div 2 - 10}

InitCursor ==
    /\ CameraInit
    /\ calls = 0
    /\ EngineInit
    /\ GLInit
    /\ MeshInit
    /\ MainInit
    /\ world = "curved"
    /\ CursorInit

CursorMoves ==
    /\ events < MaxEvents
    /\ \E xpos \in NearCursorXs, ypos \in NearCursorYs : CursorDelivered(xpos, ypos)
    /\ UNCHANGED <<calls, lastFrame, deltaTime, userPointer, shouldClose, glVars, meshVars,
                   mainVars>>

NextCursor == CursorMoves

SpecCursor == InitCursor /\ [][NextCursor]_vars

\* -90.0f + 0.1f * d as the program's arithmetic evaluates it in one step
YawDirect(d) == F32YawAdd(-90 * 2 ^ 17, F32ScaleBySensitivity(d))

====
